---- MODULE Spec2Model ----
(***************************************************************************)
(* A model of arbo (src/arbo.py): the path splitter, the tree builder, the *)
(* depth-first traversal, the narrow renderer and the ls-based decoration. *)
(*                                                                         *)
(* Text is a sequence of characters, each a one-character string.  A       *)
(* character outside ASCII (a box-drawing glyph) and an ANSI escape        *)
(* sequence are each one element of such a sequence, written as a name.    *)
(***************************************************************************)
EXTENDS Integers, Sequences, FiniteSets, TLC

VARIABLES
  pc,          \* where the run is: "split_in", "split_out", "build", "display", "done", "failed"
  line,        \* split_line's argument (the pure-function specification)
  str_path,    \* split_line's result (the pure-function specification)
  inputs,      \* the lines tree_from_line_iter has consumed, in order (history)
  nodes,       \* the Node objects: nodes[1] is ROOT; each [value, color, children]
  node_path0,  \* tree_from_line_iter's node_path0: the nodes of the preceding path
  node_paths,  \* per consumed line, the node_path built for it (history)
  before,      \* nodes and node_path0 as the last line consumed found them (history)
  root,        \* the node tree_from_line_iter returned (0 before it returns)
  limit,       \* how many lines the input holds at most (fixed from the start)
  colorize,    \* the --color argument
  bulk,        \* how many paths go in one ls call
  trav,        \* what traverse_tree_skip_root yields, in order
  fetched,     \* how many of trav nt_iter has yielded to display_tree_narrow
  is_single_child,  \* display_tree_narrow's local of that name
  out,         \* the characters written to the output, in order
  shown,       \* per consumed traversal step, what was written for it (history)
  sent,        \* per path handed to ls: the node, the path, the batch (history)
  ls_status,   \* how the last ls call ended: "ok", "exit" or "unparsable"
  out0,        \* out as it was when the last ls call was made (history)
  tree0,       \* the nodes as tree_from_line_iter returned them (history)
  stream,      \* the whole NUL-terminated input given to readline0 (history)
  file,        \* what of it file.read has not returned yet
  buffer,      \* readline0's local of that name
  fields,      \* readline0's local of that name
  yielded      \* the records readline0 has yielded, in order (history)

splitVars == <<line, str_path>>
buildVars == <<inputs, nodes, node_path0, node_paths, before>>
argVars == <<limit, colorize, bulk>>
dispVars == <<trav, fetched, is_single_child, out, shown, sent, ls_status, out0, tree0>>
readVars == <<stream, file, buffer, fields, yielded>>
vars == <<pc, splitVars, buildVars, root, argVars, dispVars, readVars>>

(***************************************************************************)
(* Bounds of the model.                                                    *)
(***************************************************************************)
MaxSplitLen == 4   \* longest line given to split_line on its own
MaxBuildLen == 3   \* longest line given to the tree builder on its own
MaxBuildLines == 3 \* most lines given to the tree builder on its own
MaxPairLines == 2  \* most lines when only consecutive paths are compared
MaxLineLen == 5    \* longest line of a listing that is displayed
MaxLines == 3      \* most lines of a listing that is displayed without colour
MaxColorLen == 3   \* longest line of a listing that is displayed with colour
MaxColorLines == 2 \* most lines of a listing that is displayed with colour
MaxBulk == 2       \* the batch size tried between 1 and BULK_LS_COUNT
MaxStreamLen == 5  \* longest stream given to readline0

Min(a, b) == IF a < b THEN a ELSE b

SEP == "/"
Alphabet == {".", "/", "a"}

\* Code points of the characters of the model (Python compares str by code point).
Ord(c) == CASE c = " " -> 32 [] c = "." -> 46 [] c = "/" -> 47 [] c = "a" -> 97 [] OTHER -> 200

\* Every text over alphabet A of length at most n.
Texts(A, n) == UNION {[1..k -> A] : k \in 0..n}

\* s <= t for Python str (and for LANG= sort): code point order, a prefix first.
RECURSIVE StrLeq(_, _)
StrLeq(s, t) ==
  IF s = <<>> THEN TRUE
  ELSE IF t = <<>> THEN FALSE
  ELSE IF Head(s) = Head(t) THEN StrLeq(Tail(s), Tail(t))
  ELSE Ord(Head(s)) < Ord(Head(t))

(***************************************************************************)
(* src/arbo.py:15-20                                                       *)
(***************************************************************************)
SLASH == <<"/">>
SLASHSLASH == <<"/", "/">>
SPECIALS == {SLASH, SLASHSLASH}

None == "None"

\* path_str[:n]
Prefix(s, n) == SubSeq(s, 1, Min(n, Len(s)))

\* path_str.split('/'): the pieces between separators, empty ones included.
RECURSIVE StrSplit(_)
StrSplit(s) ==
  IF s = <<>> THEN << <<>> >>
  ELSE LET r == StrSplit(Tail(s))
       IN  IF Head(s) = SEP THEN << <<>> >> \o r
           ELSE << <<Head(s)>> \o Head(r) >> \o Tail(r)

\* [el for el in path_str.split('/') if el]
Segments(s) == SelectSeq(StrSplit(s), LAMBDA el : el # <<>>)

\* A plausible bug: the third slash is not looked at.
split_line_no_triple(path_str) ==
  IF Prefix(path_str, 2) = <<"/", "/">>
    THEN <<SLASHSLASH>> \o Segments(path_str)
  ELSE IF Prefix(path_str, 1) = <<"/">>
    THEN <<SLASH>> \o Segments(path_str)
  ELSE Segments(path_str)

\* src/arbo.py:257-266
split_line(path_str) ==
  IF Prefix(path_str, 2) = <<"/", "/">> /\ Prefix(path_str, 3) # <<"/", "/", "/">>
    THEN <<SLASHSLASH>> \o Segments(path_str)
  ELSE IF Prefix(path_str, 1) = <<"/">>
    THEN <<SLASH>> \o Segments(path_str)
  ELSE Segments(path_str)

(***************************************************************************)
(* Node (src/arbo.py:42-59) and the tree builder (src/arbo.py:268-301).    *)
(***************************************************************************)
ROOT == 1

\* Node.__init__
Node(value) == [value |-> value, color |-> None, children |-> <<>>]

\* A plausible bug: divergence decided per position, not once and for all.
Diverged_per_position(diverged, has0, value0, str_comp) ==
  (~has0) \/ value0 # str_comp

\* diverged = diverged or node0 is None or node0.value != str_comp
Diverged(diverged, has0, value0, str_comp) ==
  diverged \/ (~has0) \/ value0 # str_comp

\* The inner loop of tree_from_line_iter from position i on:
\* for node0, str_comp in zip_longest(node_path0, str_path).
RECURSIVE WalkPath(_, _, _, _, _, _, _)
WalkPath(ns, np0, sp, i, parent, node_path, diverged) ==
  IF i > Len(sp)
    THEN [nodes |-> ns, node_path |-> node_path]
    ELSE LET has0 == i <= Len(np0)
             value0 == IF has0 THEN ns[np0[i]].value ELSE <<>>
             div == Diverged(diverged, has0, value0, sp[i])
         IN  IF ~div
               THEN WalkPath(ns, np0, sp, i + 1, np0[i], Append(node_path, np0[i]), div)
               ELSE LET new == Len(ns) + 1
                        ns1 == Append(
                                 [ns EXCEPT ![parent].children = Append(@, new)],
                                 Node(sp[i]))
                    IN  WalkPath(ns1, np0, sp, i + 1, new, Append(node_path, new), div)

\* One iteration of "for line in line_iter".
BuildLine(ns, np0, ln) == WalkPath(ns, np0, split_line(ln), 1, ROOT, <<>>, FALSE)

\* if skip_dot and len(root.children) == 1 and root.children[0].value == '.'
ReturnedRoot(ns, skip_dot) ==
  IF skip_dot /\ Len(ns[ROOT].children) = 1 /\ ns[ns[ROOT].children[1]].value = <<".">>
    THEN ns[ROOT].children[1]
    ELSE ROOT

RootNode == Node(<<"R", "O", "O", "T">>)

(***************************************************************************)
(* The traversal (src/arbo.py:61-131, 177-190).  A NodeTraversal is a      *)
(* record; its parent is <<>> for None and <<nt>> for a NodeTraversal.     *)
(***************************************************************************)
NodeTraversal(node, parent, is_first_sib, is_last_sib) ==
  [node |-> node, parent |-> parent,
   is_first_sib |-> is_first_sib, is_last_sib |-> is_last_sib]

\* A plausible bug: a node with several children is taken for a single-child one.
has_single_child_any(ns, nt) == Len(ns[nt.node].children) >= 1

has_single_child(ns, nt) == Len(ns[nt.node].children) = 1

is_root(nt) == nt.parent = <<>>

RECURSIVE min_depth(_, _)
min_depth(nt, n) ==
  IF n = 0 THEN TRUE
  ELSE IF is_root(nt) THEN FALSE
  ELSE min_depth(nt.parent[1], n - 1)

\* The loop of iter_parents, from ancestor a (<<>> or <<nt>>) upwards.
RECURSIVE IterParentsFrom(_, _)
IterParentsFrom(a, md) ==
  IF a = <<>> THEN <<>>
  ELSE IF ~min_depth(a[1], md) THEN <<>>
  ELSE Append(IterParentsFrom(a[1].parent, md), a[1])

iter_parents(nt, md) == IterParentsFrom(nt.parent, md)

iter_with_first_last(ns, nt) ==
  LET ch == ns[nt.node].children
  IN  [i \in 1..Len(ch) |-> NodeTraversal(ch[i], <<nt>>, i = 1, i = Len(ch))]

RECURSIVE traverse_tree(_, _)
RECURSIVE TraverseEach(_, _)
traverse_tree(ns, nt0) == <<nt0>> \o TraverseEach(ns, iter_with_first_last(ns, nt0))

\* for nt in ...: for e in traverse_tree(nt): yield e
TraverseEach(ns, nts) ==
  IF nts = <<>> THEN <<>>
  ELSE traverse_tree(ns, Head(nts)) \o TraverseEach(ns, Tail(nts))

\* A plausible bug: the root is traversed too.
traverse_tree_with_root(ns, rt) ==
  traverse_tree(ns, NodeTraversal(rt, <<>>, TRUE, TRUE))

traverse_tree_skip_root(ns, rt) ==
  TraverseEach(ns, iter_with_first_last(ns, NodeTraversal(rt, <<>>, TRUE, TRUE)))

\* "self.parent not in SPECIALS" compares a NodeTraversal with two str: a
\* NodeTraversal defines no __eq__, so it is in SPECIALS never.
NtInSpecials(nt) == FALSE

RECURSIVE path_str(_, _)
path_str(ns, nt) ==
  LET r == IF min_depth(nt, 2)
             THEN path_str(ns, nt.parent[1])
                    \o (IF ~NtInSpecials(nt.parent[1]) THEN <<"/">> ELSE <<>>)
             ELSE <<>>
  IN  r \o ns[nt.node].value

(***************************************************************************)
(* The narrow renderer (src/arbo.py:24-32, 55-59, 151-175).                *)
(***************************************************************************)
END_COLOR == "ESC[0m"
COLOR_DIR == "ESC[01;34m"

\* STYLE_UNICODE; U2502 is the vertical bar, U2514 the corner, U251C the tee
\* and U2500 the horizontal bar.
STYLE_UNICODE ==
  << <<" ", " ", " ">>, <<"U2502", " ", " ">>,
     <<"U2514", "U2500", " ">>, <<"U251C", "U2500", " ">> >>

\* Node.pvalue
pvalue(node) ==
  IF node.color # None THEN <<node.color>> \o node.value \o <<END_COLOR>>
  ELSE node.value

RECURSIVE Concat(_)
Concat(ss) == IF ss = <<>> THEN <<>> ELSE Head(ss) \o Concat(Tail(ss))

\* A plausible bug: a child of the root gets glyphs like every other node.
NarrowGlyphs_from_depth_one(nt, isc, style) ==
  IF ~isc /\ min_depth(nt, 1)
    THEN LET ps == iter_parents(nt, 1)
         IN  Concat([i \in 1..Len(ps) |->
                       IF ps[i].is_last_sib THEN style[1] ELSE style[2]])
             \o (IF nt.is_last_sib THEN style[3] ELSE style[4])
    ELSE <<>>

\* What display_tree_narrow writes before the node's text.
NarrowGlyphs(nt, isc, style) ==
  IF ~isc /\ min_depth(nt, 2)
    THEN LET ps == iter_parents(nt, 2)
         IN  Concat([i \in 1..Len(ps) |->
                       IF ps[i].is_last_sib THEN style[1] ELSE style[2]])
             \o (IF nt.is_last_sib THEN style[3] ELSE style[4])
    ELSE <<>>

\* A plausible bug: the separator is written after a root sentinel too.
NarrowTail_always_sep(ns, nt) ==
  IF ~has_single_child(ns, nt) THEN <<"\n">> ELSE <<"/">>

\* What display_tree_narrow writes after the node's text.
NarrowTail(ns, nt) ==
  IF ~has_single_child(ns, nt) THEN <<"\n">>
  ELSE IF ns[nt.node].value \notin SPECIALS THEN <<"/">>
  ELSE <<>>

\* The body of display_tree_narrow's loop for nt: the three parts written.
NarrowWrites(ns, nt, isc) ==
  [node |-> nt.node,
   glyphs |-> NarrowGlyphs(nt, isc, STYLE_UNICODE),
   text |-> pvalue(ns[nt.node]),
   tail |-> NarrowTail(ns, nt)]

WrittenText(w) == w.glyphs \o w.text \o w.tail

(***************************************************************************)
(* The decoration (src/arbo.py:24-29, 38-39, 133-140, 303-355).  ls is not *)
(* code of the program: it is modelled as a fixed function of the path,    *)
(* and as an environment that may fail.                                    *)
(***************************************************************************)
BULK_LS_COUNT == 400

\* ls --quoting-style=escape: a space is written as backslash, space, and a
\* backslash as two.
RECURSIVE Escape(_)
Escape(s) ==
  IF s = <<>> THEN <<>>
  ELSE (IF Head(s) \in {" ", "\\"} THEN <<"\\", Head(s)>> ELSE <<Head(s)>>)
         \o Escape(Tail(s))

\* ls --color=always: a fixed function of the path; here a path that ends in
\* "/" or "a" is coloured as a directory and any other path is not coloured.
LsColor(path) ==
  IF path # <<>> /\ path[Len(path)] \in {"/", "a"} THEN COLOR_DIR ELSE None

\* The line ls prints for a path, as WITH_COLOR_RE sees it.
LsLine(path) == [color |-> LsColor(path), text |-> Escape(path)]

\* How many separators a text ends with.
RECURSIVE TrailingSeps(_)
TrailingSeps(s) ==
  IF s = <<>> \/ s[Len(s)] # SEP THEN 0
  ELSE 1 + TrailingSeps(SubSeq(s, 1, Len(s) - 1))

\* How many non-separators a text ends with.
RECURSIVE TrailingName(_)
TrailingName(s) ==
  IF s = <<>> \/ s[Len(s)] = SEP THEN 0
  ELSE 1 + TrailingName(SubSeq(s, 1, Len(s) - 1))

\* WITH_COLOR_RE's second group, ([^/\n\033]*/*) after a lazy prefix: the
\* longest end of the text made of non-separators followed by separators.
LastComponent(text) ==
  LET t == TrailingSeps(text)
      m == TrailingName(SubSeq(text, 1, Len(text) - t))
  IN  SubSeq(text, Len(text) - t - m + 1, Len(text))

\* The loop "for line in proc.stdout" over lns, the lines ls printed: the
\* i-th line goes to the i-th nt of the batch that is left.
RECURSIVE AssignLines(_, _, _)
AssignLines(ns, nts, lns) ==
  IF lns = <<>> \/ nts = <<>> THEN ns
  ELSE AssignLines(
         [ns EXCEPT ![Head(nts).node].color = Head(lns).color,
                    ![Head(nts).node].value = LastComponent(Head(lns).text)],
         Tail(nts), Tail(lns))

\* The outcomes of one ls call on n paths: all is well; the j-th path cannot
\* be listed (no line for it, a nonzero exit status); the j-th line is one
\* WITH_COLOR_RE does not match.
LsOutcomes(n) ==
  {[kind |-> "ok", at |-> 0]}
    \cup {[kind |-> k, at |-> j] : k \in {"exit", "unparsable"}, j \in 1..n}

Without(s, j) == SubSeq(s, 1, j - 1) \o SubSeq(s, j + 1, Len(s))

\* A plausible bug: the exit status of ls is not looked at.
ExitRaises_never(status) == FALSE

\* if proc.wait(): raise RuntimeError
ExitRaises(status) == status # 0

\* postprocess_path: the nodes afterwards, the paths handed to ls, and
\* whether it raised.
postprocess_path(ns, nt_bulk, o) ==
  LET path_strs == [i \in 1..Len(nt_bulk) |-> path_str(ns, nt_bulk[i])]
      all == [i \in 1..Len(nt_bulk) |-> LsLine(path_strs[i])]
      lns == IF o.kind = "ok" THEN all
             ELSE IF o.kind = "exit" THEN Without(all, o.at)
             ELSE SubSeq(all, 1, o.at - 1)
      status == IF o.kind = "exit" THEN 2 ELSE 0
  IN  [nodes |-> AssignLines(ns, nt_bulk, lns),
       path_strs |-> path_strs,
       raised |-> IF o.kind = "unparsable" THEN "unparsable"
                  ELSE IF ExitRaises(status) THEN "exit"
                  ELSE "ok"]

(***************************************************************************)
(* The splitter on its own.                                                *)
(***************************************************************************)
\* readline0 is not called.
NoRead ==
  /\ stream = <<>>
  /\ file = <<>>
  /\ buffer = <<>>
  /\ fields = <<>>
  /\ yielded = <<>>

NoDisplay ==
  /\ colorize = FALSE
  /\ bulk = BULK_LS_COUNT
  /\ trav = <<>>
  /\ fetched = 0
  /\ is_single_child = FALSE
  /\ out = <<>>
  /\ shown = <<>>
  /\ sent = <<>>
  /\ ls_status = "ok"
  /\ out0 = <<>>
  /\ tree0 = <<>>
  /\ NoRead

InitSplit ==
  /\ pc = "split_in"
  /\ line \in Texts(Alphabet, MaxSplitLen)
  /\ str_path = <<>>
  /\ inputs = <<>>
  /\ nodes = <<RootNode>>
  /\ node_path0 = <<>>
  /\ node_paths = <<>>
  /\ before = [nodes |-> <<RootNode>>, node_path0 |-> <<>>]
  /\ root = 0
  /\ limit = 0
  /\ NoDisplay

SplitLine ==
  /\ pc = "split_in"
  /\ str_path' = split_line(line)
  /\ pc' = "split_out"
  /\ UNCHANGED <<readVars, line, buildVars, root, argVars, dispVars>>

NextSplit == SplitLine

SpecSplit == InitSplit /\ [][NextSplit]_vars

(***************************************************************************)
(* The tree builder on its own: main() up to tree_from_line_iter's return, *)
(* on lines in any order.                                                  *)
(***************************************************************************)
InitBuilder(n) ==
  /\ pc = "build"
  /\ line = <<>>
  /\ str_path = <<>>
  /\ inputs = <<>>
  /\ nodes = <<RootNode>>
  /\ node_path0 = <<>>
  /\ node_paths = <<>>
  /\ before = [nodes |-> <<RootNode>>, node_path0 |-> <<>>]
  /\ root = 0
  /\ limit = n
  /\ NoDisplay

InitBuild == InitBuilder(MaxBuildLines)

InitPair == InitBuilder(MaxPairLines)

\* The body of "for line in line_iter" for one line.
AddLine(ln) ==
  /\ pc = "build"
  /\ Len(inputs) < limit
  /\ LET r == BuildLine(nodes, node_path0, ln)
     IN  /\ nodes' = r.nodes
         /\ node_path0' = r.node_path
         /\ node_paths' = Append(node_paths, r.node_path)
  /\ before' = [nodes |-> nodes, node_path0 |-> node_path0]
  /\ inputs' = Append(inputs, ln)
  /\ UNCHANGED <<readVars, pc, splitVars, root, argVars, dispVars>>

\* line_iter is exhausted: the skip_dot test and the return.
EndInput(skip_dot) ==
  /\ pc = "build"
  /\ root' = ReturnedRoot(nodes, skip_dot)
  /\ pc' = "built"
  /\ UNCHANGED <<readVars, splitVars, buildVars, argVars, dispVars>>

BuildLines == Texts(Alphabet, MaxBuildLen)

\* The input has another line.
MoreInput == pc = "build" /\ Len(inputs) < limit

NextBuild ==
  \/ MoreInput /\ \E ln \in BuildLines : AddLine(ln)
  \/ \E skip_dot \in BOOLEAN : EndInput(skip_dot)

SpecBuild == InitBuild /\ [][NextBuild]_vars

\* Lines of a separator and one letter: their components are "", "a", "aa", ...
PairLines == Texts({SEP, "a"}, MaxBuildLen)

\* The loop of tree_from_line_iter alone.
NextPair == MoreInput /\ \E ln \in PairLines : AddLine(ln)

SpecPair == InitPair /\ [][NextPair]_vars

(***************************************************************************)
(* The whole run of main() on a sorted listing, narrow display: the lines  *)
(* are read, the tree is built, display_tree walks it.  The listing holds  *)
(* each path once, in one spelling, in the order of LANG= sort.  The loop  *)
(* of display_tree_narrow is sequential: with colour one action is one     *)
(* batch of colorize_nt_iter, decorated and then displayed; without colour *)
(* one action is the whole loop.                                           *)
(***************************************************************************)
Letters == {" ", "a"}

\* The components joined by the separator.
RECURSIVE JoinComps(_)
JoinComps(cs) ==
  IF cs = <<>> THEN <<>>
  ELSE IF Len(cs) = 1 THEN Head(cs)
  ELSE Head(cs) \o <<SEP>> \o JoinComps(Tail(cs))

\* The lines of a listing, of length at most n: one-letter components after
\* nothing, "/", "//" or "./".
ListingLines(n) ==
  LET css == UNION {[1..k -> {<<c>> : c \in Letters}] : k \in 0..n}
      rel == {JoinComps(cs) : cs \in css}
      all == rel \cup {<<"/">> \o l : l \in rel} \cup {<<"/", "/">> \o l : l \in rel}
                 \cup {JoinComps(<< <<".">> >> \o cs) : cs \in css}
  IN  {l \in all : Len(l) <= n}

DisplayLines == ListingLines(MaxLineLen)

ColorLines == ListingLines(MaxColorLen)

InitRun(n, c, bs) ==
  /\ pc = "build"
  /\ line = <<>>
  /\ str_path = <<>>
  /\ inputs = <<>>
  /\ nodes = <<RootNode>>
  /\ node_path0 = <<>>
  /\ node_paths = <<>>
  /\ before = [nodes |-> <<RootNode>>, node_path0 |-> <<>>]
  /\ root = 0
  /\ limit = n
  /\ colorize = c
  /\ bulk \in bs
  /\ trav = <<>>
  /\ fetched = 0
  /\ is_single_child = FALSE
  /\ out = <<>>
  /\ shown = <<>>
  /\ sent = <<>>
  /\ ls_status = "ok"
  /\ out0 = <<>>
  /\ tree0 = <<>>
  /\ NoRead

\* The next line of a sorted listing is read.
AddSortedLine(ln) ==
  /\ inputs # <<>> => (inputs[Len(inputs)] # ln /\ StrLeq(inputs[Len(inputs)], ln))
  /\ AddLine(ln)

\* The locals and the objects display_tree_narrow and postprocess_path work on.
DisplayState(ns, o, sh, se, isc) ==
  [nodes |-> ns, out |-> o, shown |-> sh, sent |-> se, is_single_child |-> isc,
   raised |-> "ok"]

\* One turn of display_tree_narrow's loop, for nt.
DisplayNode(st, nt) ==
  LET w == NarrowWrites(st.nodes, nt, st.is_single_child)
  IN  [st EXCEPT !.out = @ \o WrittenText(w),
                 !.shown = Append(@, w),
                 !.is_single_child = has_single_child(st.nodes, nt)]

\* The turns of display_tree_narrow's loop for nts, in order.
RECURSIVE DisplayEach(_, _)
DisplayEach(st, nts) ==
  IF nts = <<>> THEN st ELSE DisplayEach(DisplayNode(st, Head(nts)), Tail(nts))

\* One turn of colorize_nt_iter's loop on nt_bulk, ls ending as o: the batch
\* is decorated, then each nt of it is yielded to display_tree_narrow.
ColorizeBatch(st, nt_bulk, o, batch) ==
  LET r == postprocess_path(st.nodes, nt_bulk, o)
      st1 == [st EXCEPT !.nodes = r.nodes,
                        !.raised = r.raised,
                        !.sent = @ \o [i \in 1..Len(nt_bulk) |->
                                   [node |-> nt_bulk[i].node,
                                    path |-> r.path_strs[i], batch |-> batch]]]
  IN  IF r.raised = "ok" THEN DisplayEach(st1, nt_bulk) ELSE st1

\* list(itertools.islice(itr, BULK_LS_COUNT)) once n were taken, in batches of b.
NextBulk(tr, n, b) == SubSeq(tr, n + 1, Min(n + b, Len(tr)))

\* display_tree up to the loop: the traversal is set up.
DisplayTree ==
  /\ pc = "built"
  /\ pc' = "display"
  /\ trav' = traverse_tree_skip_root(nodes, root)
  /\ tree0' = nodes
  /\ UNCHANGED <<readVars, splitVars, buildVars, root, argVars,
                 fetched, is_single_child, out, shown, sent, ls_status, out0>>

\* display_tree_narrow's loop without colour, to its end.
DisplayPlain ==
  /\ pc = "display"
  /\ ~colorize
  /\ LET st == DisplayEach(DisplayState(nodes, out, shown, sent, is_single_child), trav)
     IN  /\ out' = st.out
         /\ shown' = st.shown
         /\ is_single_child' = st.is_single_child
  /\ fetched' = Len(trav)
  /\ pc' = "done"
  /\ UNCHANGED <<readVars, splitVars, buildVars, root, argVars, trav, sent, ls_status, out0, tree0>>

\* display_tree_narrow's loop with colour, for the next batch of nt_iter.
DisplayBatch ==
  /\ pc = "display"
  /\ colorize
  /\ fetched < Len(trav)
  /\ LET nt_bulk == NextBulk(trav, fetched, bulk)
         batch == Cardinality({sent[i].batch : i \in 1..Len(sent)}) + 1
     IN  \E o \in LsOutcomes(Len(nt_bulk)) :
           LET st == ColorizeBatch(
                       DisplayState(nodes, out, shown, sent, is_single_child),
                       nt_bulk, o, batch)
           IN  /\ nodes' = st.nodes
               /\ sent' = st.sent
               /\ out' = st.out
               /\ shown' = st.shown
               /\ is_single_child' = st.is_single_child
               /\ ls_status' = o.kind
               /\ IF st.raised = "ok"
                    THEN fetched' = fetched + Len(nt_bulk) /\ pc' = "display"
                    ELSE fetched' = fetched /\ pc' = "failed"
  /\ out0' = out
  /\ UNCHANGED <<readVars, splitVars, inputs, node_path0, node_paths, before, root, argVars, trav, tree0>>

\* colorize_nt_iter finds nt_iter exhausted: display_tree returns.
Finish ==
  /\ pc = "display"
  /\ colorize
  /\ fetched = Len(trav)
  /\ pc' = "done"
  /\ UNCHANGED <<readVars, splitVars, buildVars, root, argVars, dispVars>>

NextPlain ==
  \/ MoreInput /\ \E ln \in DisplayLines : AddSortedLine(ln)
  \/ \E skip_dot \in BOOLEAN : EndInput(skip_dot)
  \/ DisplayTree
  \/ DisplayPlain

NextColor ==
  \/ MoreInput /\ \E ln \in ColorLines : AddSortedLine(ln)
  \/ \E skip_dot \in BOOLEAN : EndInput(skip_dot)
  \/ DisplayTree
  \/ DisplayBatch
  \/ Finish

Spec == InitRun(MaxLines, FALSE, {BULK_LS_COUNT}) /\ [][NextPlain]_vars

SpecColor ==
  InitRun(MaxColorLines, TRUE, {1, MaxBulk, BULK_LS_COUNT}) /\ [][NextColor]_vars

(***************************************************************************)
(* readline0 on its own: one action is one pass of its loop, reading one   *)
(* block of any size the file may return; the pass that reads the empty    *)
(* block leaves the loop and reaches the final raise.                      *)
(***************************************************************************)
NUL == "NUL"
separator == NUL
blocksize == 65536

\* buffer.split(separator): the pieces between separators, empty ones included.
RECURSIVE SplitOn(_, _)
SplitOn(s, sep) ==
  IF s = <<>> THEN << <<>> >>
  ELSE LET r == SplitOn(Tail(s), sep)
       IN  IF Head(s) = sep THEN << <<>> >> \o r
           ELSE << <<Head(s)>> \o Head(r) >> \o Tail(r)

\* s[-1:]
LastSlice(s) == IF s = <<>> THEN <<>> ELSE <<s[Len(s)]>>

\* s[:-1]
ButLast(s) == IF s = <<>> THEN <<>> ELSE SubSeq(s, 1, Len(s) - 1)

\* How `raise StopIteration` inside a generator ends the iteration: before
\* PEP 479 took effect it exhausts the generator, since Python 3.7 the
\* interpreter turns it into a RuntimeError raised in the consumer.
GeneratorExits == {"exhausted", "RuntimeError"}

StreamChars == {NUL, "a"}

InitRead0 ==
  /\ pc = "readline0"
  /\ line = <<>>
  /\ str_path = <<>>
  /\ inputs = <<>>
  /\ nodes = <<RootNode>>
  /\ node_path0 = <<>>
  /\ node_paths = <<>>
  /\ before = [nodes |-> <<RootNode>>, node_path0 |-> <<>>]
  /\ root = 0
  /\ limit = 0
  /\ colorize = FALSE
  /\ bulk = BULK_LS_COUNT
  /\ trav = <<>>
  /\ fetched = 0
  /\ is_single_child = FALSE
  /\ out = <<>>
  /\ shown = <<>>
  /\ sent = <<>>
  /\ ls_status = "ok"
  /\ out0 = <<>>
  /\ tree0 = <<>>
  /\ stream \in Texts(StreamChars, MaxStreamLen)
  /\ file = stream
  /\ buffer = <<>>
  /\ fields = <<>>
  /\ yielded = <<>>

\* The pass read a block that is not empty: part out the new buffer.
PartOut(new_buffer) ==
  LET new_fields == SplitOn(new_buffer, separator)
  IN  /\ buffer' = new_buffer
      /\ fields' = new_fields
      /\ yielded' = yielded \o ButLast(new_fields)
      /\ pc' = pc

\* The pass read the empty block: break, then the raise after the loop.
BreakLoop(last_yield) ==
  /\ yielded' = yielded \o last_yield
  /\ pc' \in GeneratorExits
  /\ UNCHANGED <<buffer, fields>>

\* One pass of the loop of readline0, file.read returning n characters.
ReadBlock(n) ==
  LET block == SubSeq(file, 1, n)
  IN  /\ file' = SubSeq(file, n + 1, Len(file))
      /\ IF fields # <<>>
            THEN IF LastSlice(buffer) = <<separator>>
                   THEN IF block = <<>> THEN BreakLoop(<<>>)
                        ELSE PartOut(block)
                   ELSE IF block = <<>> THEN BreakLoop(<<fields[Len(fields)]>>)
                        ELSE PartOut(fields[Len(fields)] \o block)
            ELSE IF block = <<>> THEN BreakLoop(<<>>)
                 ELSE PartOut(block)
      /\ UNCHANGED <<stream, splitVars, buildVars, root, argVars, dispVars>>

\* file.read(blocksize) returns at most blocksize characters, at least one
\* while the file holds any, and the empty block at the end of the file.
ReadLine0 ==
  /\ pc = "readline0"
  /\ \E n \in 0..Min(blocksize, Len(file)) :
       /\ (n = 0) = (file = <<>>)
       /\ ReadBlock(n)

NextRead0 == ReadLine0

SpecRead0 == InitRead0 /\ [][NextRead0]_vars

(***************************************************************************)
(* Notions the properties are stated with.                                 *)
(***************************************************************************)
\* The length of the longest common prefix of two sequences.
RECURSIVE LCP(_, _)
LCP(a, b) ==
  IF a = <<>> \/ b = <<>> \/ Head(a) # Head(b) THEN 0
  ELSE 1 + LCP(Tail(a), Tail(b))

\* How many separators a text starts with.
RECURSIVE LeadingSeps(_)
LeadingSeps(s) ==
  IF s = <<>> \/ Head(s) # SEP THEN 0 ELSE 1 + LeadingSeps(Tail(s))

\* The maximal runs of non-separator characters of a text, in order.
RECURSIVE Runs(_, _)
Runs(s, cur) ==
  LET done == IF cur = <<>> THEN <<>> ELSE <<cur>>
  IN  IF s = <<>> THEN done
      ELSE IF Head(s) = SEP THEN done \o Runs(Tail(s), <<>>)
      ELSE Runs(Tail(s), Append(cur, Head(s)))

\* The components of the i-th consumed line.
InputComps(i) == split_line(inputs[i])

InputsSorted == \A i \in 1..(Len(inputs) - 1) : StrLeq(inputs[i], inputs[i + 1])

NoEqualSiblings ==
  \A n \in 1..Len(nodes) : \A i, j \in 1..Len(nodes[n].children) :
    i # j => nodes[nodes[n].children[i]].value # nodes[nodes[n].children[j]].value

(***************************************************************************)
(* C1: when tree_from_line_iter consumes a line, the nodes it reuses from  *)
(* the preceding path are exactly those of the longest common component    *)
(* prefix of the two paths, and every later position gets a brand-new node *)
(* appended as the last child of the running parent, whatever the          *)
(* preceding path holds at that position.                                  *)
(***************************************************************************)
C1_ReusesExactlyCommonPrefix ==
  inputs # <<>> =>
    LET sp == InputComps(Len(inputs))
        prev == IF Len(inputs) = 1 THEN <<>> ELSE InputComps(Len(inputs) - 1)
        k == LCP(prev, sp)
        np == node_path0
        old == before.nodes
    IN  /\ Len(np) = Len(sp)
        /\ Len(nodes) = Len(old) + (Len(sp) - k)
        /\ \A i \in 1..k : np[i] = before.node_path0[i]
        /\ \A i \in (k + 1)..Len(sp) :
             LET par == IF i = 1 THEN ROOT ELSE np[i - 1]
                 had == IF par <= Len(old) THEN old[par].children ELSE <<>>
             IN  /\ np[i] = Len(old) + (i - k)
                 /\ nodes[np[i]].value = sp[i]
                 /\ nodes[par].children = Append(had, np[i])
        /\ \A n \in 1..Len(old) :
             /\ nodes[n].value = old[n].value
             /\ (k = Len(sp) \/ n # (IF k = 0 THEN ROOT ELSE np[k]))
                  => nodes[n].children = old[n].children

\* Reached: a line diverges from the preceding one and later holds a component
\* equal to the preceding path's at the same position.
C1_Witness ==
  /\ Len(inputs) >= 2
  /\ LET cur == InputComps(Len(inputs))
         prev == InputComps(Len(inputs) - 1)
         k == LCP(prev, cur)
     IN  \E i \in (k + 2)..Min(Len(cur), Len(prev)) : cur[i] = prev[i]

(***************************************************************************)
(* C2: after lines in non-decreasing order of their literal text, any two  *)
(* input paths sharing a length-k component prefix map to the same k       *)
(* nodes, and no node has two children of equal value.                     *)
(***************************************************************************)
C2_SortedInputsShareNodes ==
  InputsSorted =>
    /\ \A i, j \in 1..Len(inputs) :
         \A k \in 1..LCP(InputComps(i), InputComps(j)) :
           node_paths[i][k] = node_paths[j][k]
    /\ NoEqualSiblings

(***************************************************************************)
(* C3 as stated: two leading separators give ROOT_DOUBLE_SLASH, one gives  *)
(* ROOT_SLASH, and every other line, three or more leading separators      *)
(* included, gives its non-empty segments with no root sentinel.           *)
(***************************************************************************)
C3_AsStated ==
  pc = "split_out" =>
    str_path = (CASE LeadingSeps(line) = 2 -> <<SLASHSLASH>>
                  [] LeadingSeps(line) = 1 -> <<SLASH>>
                  [] OTHER -> <<>>) \o Runs(line, <<>>)

(***************************************************************************)
(* C3 amended: exactly two leading separators give ROOT_DOUBLE_SLASH; one, *)
(* or three or more, give ROOT_SLASH; a line that does not start with a    *)
(* separator gives no root sentinel; the non-empty segments follow.        *)
(***************************************************************************)
C3_ThreeCaseRule ==
  pc = "split_out" =>
    str_path = (CASE LeadingSeps(line) = 2 -> <<SLASHSLASH>>
                  [] LeadingSeps(line) = 0 -> <<>>
                  [] OTHER -> <<SLASH>>) \o Runs(line, <<>>)

\* Reached: a line with three or more leading separators and a segment was split.
C3_Witness ==
  /\ pc = "split_out"
  /\ LeadingSeps(line) >= 3
  /\ Runs(line, <<>>) # <<>>

(***************************************************************************)
(* The tree as the properties read it: from the children lists alone.      *)
(***************************************************************************)
ParentOf(ns, n) ==
  CHOOSE p \in 1..Len(ns) : \E i \in 1..Len(ns[p].children) : ns[p].children[i] = n

\* The nodes from the child of rt down to n, for n below rt; <<>> for rt.
RECURSIVE PathBelow(_, _, _)
PathBelow(ns, rt, n) ==
  IF n = rt \/ n = ROOT THEN <<>> ELSE Append(PathBelow(ns, rt, ParentOf(ns, n)), n)

\* The nodes below rt.
RECURSIVE Below(_, _)
Below(ns, rt) ==
  LET ch == {ns[rt].children[i] : i \in 1..Len(ns[rt].children)}
  IN  ch \cup UNION {Below(ns, c) : c \in ch}

IsLastChild(ns, n) ==
  LET ch == ns[ParentOf(ns, n)].children IN ch[Len(ch)] = n

ChildCount(n) == Len(nodes[n].children)

\* The m-th traversal step begins an output line.
BeginsLine(m) == m = 1 \/ shown[m - 1].tail = <<"\n">>

\* Steps i..j are a chain: each of i..j-1 is a node with exactly one child.
IsChain(i, j) == i < j /\ \A m \in i..(j - 1) : ChildCount(shown[m].node) = 1

\* What was written from the text of step i to the text of step j.
ChainText(i, j) ==
  Concat([k \in 1..(j - i + 1) |->
            shown[i + k - 1].text \o (IF i + k - 1 < j THEN shown[i + k - 1].tail ELSE <<>>)])

OutIsShown == out = Concat([m \in 1..Len(shown) |-> WrittenText(shown[m])])

BLANK == <<" ", " ", " ">>
VBAR == <<"U2502", " ", " ">>
CORNER == <<"U2514", "U2500", " ">>
TEE == <<"U251C", "U2500", " ">>

(***************************************************************************)
(* C4: in narrow rendering a chain of single-child nodes and its end node  *)
(* are written on one line, their texts joined by one "/" (none after a    *)
(* root sentinel) with no glyph between them, and split_line of that text  *)
(* gives back the chain's components; the single input /x renders as the   *)
(* one line /x with no glyph.                                              *)
(***************************************************************************)
C4_ChainOnOneLine ==
  pc = "done" =>
    /\ OutIsShown
    /\ \A i, j \in 1..Len(shown) :
         IsChain(i, j) =>
           /\ \A m \in (i + 1)..j :
                /\ shown[m].glyphs = <<>>
                /\ shown[m].node = nodes[shown[m - 1].node].children[1]
           /\ \A m \in i..(j - 1) :
                shown[m].tail =
                  (IF nodes[shown[m].node].value \in SPECIALS THEN <<>> ELSE <<"/">>)
           /\ split_line(ChainText(i, j)) =
                [k \in 1..(j - i + 1) |-> nodes[shown[i + k - 1].node].value]
    /\ inputs = << <<"/", "a">> >> => out = <<"/", "a", "\n">>

\* Reached: a chain of three nodes that starts at a root sentinel was rendered.
C4_Witness ==
  /\ pc = "done"
  /\ \E i \in 1..Len(shown) :
       /\ i + 2 <= Len(shown)
       /\ IsChain(i, i + 2)
       /\ nodes[shown[i].node].value \in SPECIALS

(***************************************************************************)
(* C5 as stated: every node that begins an output line and is no root      *)
(* sentinel, a literal child of ROOT included, is preceded by one          *)
(* continuation glyph per ancestor (blank for a last sibling, else the     *)
(* vertical bar) and by its own branch glyph (corner for a last sibling,   *)
(* else tee).                                                              *)
(***************************************************************************)
ContinuationGlyphs(ancestors) ==
  Concat([k \in 1..Len(ancestors) |->
            IF IsLastChild(nodes, ancestors[k]) THEN BLANK ELSE VBAR])

BranchGlyph(n) == IF IsLastChild(nodes, n) THEN CORNER ELSE TEE

C5_AsStated ==
  pc = "done" =>
    \A m \in 1..Len(shown) :
      (BeginsLine(m) /\ nodes[shown[m].node].value \notin SPECIALS) =>
        LET p == PathBelow(nodes, root, shown[m].node)
        IN  shown[m].glyphs =
              ContinuationGlyphs(SubSeq(p, 1, Len(p) - 1)) \o BranchGlyph(shown[m].node)

(***************************************************************************)
(* C5 amended: a node that begins an output line and is a child of the     *)
(* root is preceded by no glyph; any other node that begins a line is      *)
(* preceded by one continuation glyph per ancestor that is not a child of  *)
(* the root (blank for a last sibling, else the vertical bar) and by its   *)
(* own branch glyph (corner for a last sibling, else tee).  So a/b, a/c    *)
(* renders as a, tee+b, corner+c, and a/b/c as the one line a/b/c.         *)
(***************************************************************************)
C5_GlyphsFromDepthTwo ==
  pc = "done" =>
    /\ OutIsShown
    /\ \A m \in 1..Len(shown) :
         LET p == PathBelow(nodes, root, shown[m].node)
         IN  shown[m].glyphs =
               (IF ~BeginsLine(m) \/ Len(p) = 1 THEN <<>>
                ELSE ContinuationGlyphs(SubSeq(p, 2, Len(p) - 1))
                       \o BranchGlyph(shown[m].node))
    /\ (inputs = << <<"a", "/", " ">>, <<"a", "/", "a">> >> /\ root = ROOT)
         => out = <<"a", "\n">> \o TEE \o <<" ", "\n">> \o CORNER \o <<"a", "\n">>
    /\ (inputs = << <<"a", "/", "a", "/", "a">> >> /\ root = ROOT)
         => out = <<"a", "/", "a", "/", "a", "\n">>

\* Reached: a line begins with a vertical bar, and a literal child of the root
\* that has several children begins a line.
C5_Witness ==
  /\ pc = "done"
  /\ \E m \in 1..Len(shown) : Prefix(shown[m].glyphs, 3) = VBAR
  /\ \E m \in 1..Len(shown) :
       /\ BeginsLine(m)
       /\ Len(PathBelow(nodes, root, shown[m].node)) = 1
       /\ nodes[shown[m].node].value \notin SPECIALS
       /\ ChildCount(shown[m].node) >= 2

(***************************************************************************)
(* C6: the narrow rendering of a tree writes as many newline-terminated    *)
(* lines as there are nodes below the root, minus the nodes below the root *)
(* that have exactly one child.                                            *)
(***************************************************************************)
NewlineCount == Cardinality({i \in 1..Len(out) : out[i] = "\n"})

C6_LineCount ==
  pc = "done" =>
    LET below == Below(nodes, root)
    IN  NewlineCount =
          Cardinality(below) - Cardinality({n \in below : ChildCount(n) = 1})

\* Reached: a tree with a single-child node and a node with several children.
C6_Witness ==
  /\ pc = "done"
  /\ \E n \in Below(nodes, root) : ChildCount(n) = 1
  /\ \E n \in Below(nodes, root) : ChildCount(n) >= 2

(***************************************************************************)
(* The decorated run as the properties read it.                            *)
(***************************************************************************)
\* The whole of display_tree with colour on nodes ns and traversal tr, in
\* batches of b, ls never failing: from step n on.
RECURSIVE RunFrom(_, _, _, _, _)
RunFrom(st, tr, n, b, batch) ==
  IF n >= Len(tr) THEN st
  ELSE RunFrom(ColorizeBatch(st, NextBulk(tr, n, b), [kind |-> "ok", at |-> 0], batch),
               tr, Min(n + b, Len(tr)), b, batch + 1)

RunWithBatch(b) == RunFrom(DisplayState(tree0, <<>>, <<>>, <<>>, FALSE), trav, 0, b, 1)

SentPaths(se) == [i \in 1..Len(se) |-> se[i].path]

\* The entry of sent for node n.
SentOf(n) == sent[CHOOSE i \in 1..Len(sent) : sent[i].node = n]

\* The path of a node as the components of the input spell it: literal
\* components joined by one separator, none after a root sentinel.
RECURSIVE JoinPath(_)
JoinPath(cs) ==
  IF cs = <<>> THEN <<>>
  ELSE IF Len(cs) = 1 THEN Head(cs)
  ELSE IF Head(cs) \in SPECIALS THEN Head(cs) \o JoinPath(Tail(cs))
  ELSE Head(cs) \o <<SEP>> \o JoinPath(Tail(cs))

InputPath(n) ==
  LET p == PathBelow(tree0, root, n) IN JoinPath([k \in 1..Len(p) |-> tree0[p[k]].value])

IsSentinel(n) == tree0[n].value \in SPECIALS

(***************************************************************************)
(* C7: with a deterministic decorator that may rewrite the content, a run  *)
(* in batches of any size sends the same path for every node, and writes   *)
(* the same output, as the run of the same tree in batches of one.         *)
(***************************************************************************)
C7_BatchSizeIrrelevant ==
  (pc = "done" /\ colorize) =>
    LET one == RunWithBatch(1)
    IN  /\ SentPaths(sent) = SentPaths(one.sent)
        /\ out = one.out

(***************************************************************************)
(* C8: the path built for a node none of whose ancestors is decorated yet  *)
(* is its ancestor chain below ROOT joined by exactly one separator        *)
(* between literal components, a root sentinel giving its own text and no  *)
(* separator after it: x under ROOT_SLASH gives /x, under                  *)
(* ROOT_DOUBLE_SLASH //x.                                                  *)
(***************************************************************************)
C8_PathStrJoinsComponents ==
  \A i \in 1..Len(sent) :
    LET p == PathBelow(tree0, root, sent[i].node)
    IN  (\A k \in 1..(Len(p) - 1) : SentOf(p[k]).batch = sent[i].batch)
          => sent[i].path = InputPath(sent[i].node)

(***************************************************************************)
(* C9 as stated: no batch handed to the decorator holds an entry for a     *)
(* root sentinel node, and the value and colour of a root sentinel node    *)
(* are never overwritten by a decorator response.                          *)
(***************************************************************************)
C9_AsStated ==
  /\ \A i \in 1..Len(sent) : ~IsSentinel(sent[i].node)
  /\ \A n \in 1..Len(tree0) :
       IsSentinel(n) => nodes[n].color = None /\ nodes[n].value = tree0[n].value

(***************************************************************************)
(* C9 amended: the only node never handed to the decorator is the root of  *)
(* the traversal (the synthetic ROOT, and the node that replaces it under  *)
(* skip_dot); a root sentinel node is handed to it like any other node,    *)
(* with its own text / or // as the path, and once its batch is done its   *)
(* value and colour are those of the decorator's response.                 *)
(***************************************************************************)
C9_OnlyRootNeverSent ==
  /\ \A i \in 1..Len(sent) : sent[i].node \notin {ROOT, root}
  /\ (pc = "done" /\ colorize) =>
       /\ {sent[i].node : i \in 1..Len(sent)} = Below(tree0, root)
       /\ Len(sent) = Cardinality(Below(tree0, root))
  /\ \A i \in 1..Len(sent) :
       IsSentinel(sent[i].node) =>
         /\ sent[i].path = tree0[sent[i].node].value
         /\ i <= fetched =>
              /\ nodes[sent[i].node].color = LsLine(sent[i].path).color
              /\ nodes[sent[i].node].value = LastComponent(LsLine(sent[i].path).text)

\* Reached: a root sentinel node was decorated and has a colour.
C9_Witness ==
  \E i \in 1..fetched :
    /\ IsSentinel(sent[i].node)
    /\ nodes[sent[i].node].color = COLOR_DIR

(***************************************************************************)
(* C10: when ls exits with a nonzero status or prints a line that cannot   *)
(* be parsed while batch k is processed, the run ends in an error and      *)
(* nothing more is done; the output holds the text of the nodes of the     *)
(* batches before k, as it was written, and of no other node.              *)
(***************************************************************************)
C10_FailureStopsRun ==
  ls_status # "ok" =>
    /\ pc = "failed"
    /\ ~ENABLED NextColor
    /\ out = out0
    /\ OutIsShown
    /\ Len(shown) = fetched
    /\ \A m \in 1..Len(shown) : shown[m].node = trav[m].node
    /\ \A i \in 1..Len(sent) : sent[i].batch <= sent[Len(sent)].batch
    /\ \A m \in 1..Len(shown) : SentOf(shown[m].node).batch < sent[Len(sent)].batch

\* Reached: ls exited with a nonzero status in a batch after the first, whose
\* nodes' text had been written.
C10_Witness ==
  /\ pc = "failed"
  /\ ls_status = "exit"
  /\ out # <<>>
  /\ sent[Len(sent)].batch >= 2

\* The pieces of a text that end at a separator, then the piece after the last
\* separator when it is not empty.
RECURSIVE Records(_, _)
Records(s, cur) ==
  IF s = <<>> THEN (IF cur = <<>> THEN <<>> ELSE <<cur>>)
  ELSE IF Head(s) = separator THEN <<cur>> \o Records(Tail(s), <<>>)
  ELSE Records(Tail(s), Append(cur, Head(s)))

Read0Ended == pc \in GeneratorExits

\* However the iteration ends, what was yielded are the records of the stream.
Read0YieldsRecords == Read0Ended => yielded = Records(stream, <<>>)

\* While the loop runs, what was yielded and the partial record kept in
\* fields[-1] are the pieces of what was read so far.
Read0YieldsSoFar ==
  (pc = "readline0" /\ fields # <<>>) =>
    yielded \o <<fields[Len(fields)]>>
      = SplitOn(SubSeq(stream, 1, Len(stream) - Len(file)), separator)

(***************************************************************************)
(* C11: for every stream and every division of it into non-empty blocks    *)
(* followed by an empty read, the records readline0 yields, in order, are  *)
(* the pieces of the stream split on the separator (a record spanning      *)
(* blocks once and whole, a trailing partial record included, no extra     *)
(* empty record after a final separator), and the iteration then ends      *)
(* without raising an error.                                               *)
(***************************************************************************)
C11_YieldsRecordsAndEndsCleanly ==
  Read0Ended =>
    /\ yielded = Records(stream, <<>>)
    /\ pc = "exhausted"

=============================================================================
